---- MODULE Spec2Model ----
(***************************************************************************)
(* Model of bin/update_vim_plugins/plugin.py: the resolution of a plugin   *)
(* spec into a VimPlugin by one of three host adapters (GitHubPlugin,      *)
(* GitlabPlugin, SourceHutPlugin), dispatched by plugin_from_spec.         *)
(*                                                                         *)
(* Python values are modelled as follows.  A str is a sequence of text     *)
(* fragments wrapped by Str, so that an f-string is a concatenation and    *)
(* str.split cuts the sequence; None is Null; a dict is a record whose     *)
(* DOMAIN is its key set (a key the dict lacks is absent from DOMAIN); a   *)
(* dict stored as a value that may also be null is wrapped by Dict.  An    *)
(* evaluation that may raise yields Ok(v) or Raise(kind, msg).             *)
(***************************************************************************)
EXTENDS Integers, Sequences, FiniteSets, TLC

\* ------------------------------------------------------------ bounds
NumTokens == 1
MaxLogLen == 2

\* ------------------------------------------------------------ values
Null == [t |-> "null"]
Str(s) == [t |-> "str", v |-> s]
Dict(d) == [t |-> "dict", d |-> d]
Lic(n) == [t |-> "License", v |-> n]

Ok(v) == [ok |-> TRUE, val |-> v]
Raise(kind, msg) == [ok |-> FALSE, err |-> [kind |-> kind, msg |-> msg]]

\* Python truthiness of the values the module applies `or` to.
Truthy(v) ==
    /\ v # Null
    /\ (v.t = "str" => v.v # <<>>)
    /\ (v.t = "dict" => DOMAIN v.d # {})

\* a or b
PyOr(a, b) == IF Truthy(a) THEN a ELSE b

\* d.get(k) and d.get(k, dflt)
DictGet(d, k) == IF k \in DOMAIN d THEN d[k] ELSE Null
DictGetDefault(d, k, dflt) == IF k \in DOMAIN d THEN d[k] ELSE dflt

\* The text an f-string substitutes for a value.
Fmt(v) == IF v = Null THEN <<"None">> ELSE v.v

\* s.split("T")[0]: the fragments before the first "T".
RECURSIVE SplitT0(_)
SplitT0(s) ==
    IF s = <<>> \/ Head(s) = "T" THEN <<>> ELSE <<Head(s)>> \o SplitT0(Tail(s))

\* urllib.parse.quote(s, safe=""): "/" is escaped.
RECURSIVE Quote(_)
Quote(s) ==
    IF s = <<>> THEN <<>>
    ELSE (IF Head(s) = "/" THEN <<"%2F">> ELSE <<Head(s)>>) \o Quote(Tail(s))

Last(s) == s[Len(s)]

\* ------------------------------------------------------------ inputs
TokenNames == <<"t1", "t2", "t3">>
Tokens == {Str(<<TokenNames[i]>>) : i \in 1..NumTokens}
OptTokens == Tokens \cup {Null}
EnvVars == {"GITHUB_TOKEN", "SOURCEHUT_TOKEN"}

GITHUB == "github"
GITLAB == "gitlab"
SOURCEHUT == "sourcehut"
\* A repository_host that is none of the three members the dispatch tests.
OTHERHOST == "other"
Hosts == {GITHUB, GITLAB, SOURCEHUT, OTHERHOST}

UNKNOWN == Lic("unknown")
MIT == Lic("mit")
GPL3 == Lic("gpl3")

\* The plugin specs handed to plugin_from_spec: branch and license are each
\* None or given (a given branch is a non-empty string).
PluginSpecs ==
    { [repository_host |-> h, owner |-> Str(<<"a">>), repo |-> Str(<<"b">>),
       name |-> Str(<<"b-nvim">>), line |-> Str(<<"a/b">>),
       branch |-> br, license |-> li] :
        h \in Hosts, br \in {Null, Str(<<"dev">>)}, li \in {Null, GPL3} }

\* ------------------------------------------------------------ host responses
HTTP_OK == 200
Statuses == {HTTP_OK, 404, 500}

\* A response body: its raw text and, when the text is JSON, its parsed value.
JsonBody(j) == [isjson |-> TRUE, text |-> <<"{json}">>, json |-> j]
HtmlBody == [isjson |-> FALSE, text |-> <<"<html>error</html>">>]
ErrorJsonBody ==
    [isjson |-> TRUE, text |-> <<"{\"message\": \"Not Found\"}">>,
     json |-> [message |-> Str(<<"Not Found">>)]]
ErrorBodies == {ErrorJsonBody, HtmlBody}

\* Every dict over a subset of the keys of `full`, with full's values.
SubDicts(full, optional) ==
    { [k \in (DOMAIN full \ drop) |-> full[k]] : drop \in SUBSET optional }

Descriptions == {Null, Str(<<>>), Str(<<"A plugin">>)}
LicenseIds == {Null, Str(<<"MIT">>), Str(<<"Beerware-1">>)}

\* Timestamps as the hosts write them: date, "T", time, then "Z" (GitHub) or
\* a fraction and a UTC offset (GitLab, SourceHut).
Dates == {"2024-03-01", "2023-12-31"}
Times == {"10:00:00"}
Fractions == {".000"}
Offsets == {"+00:00", "Z"}
StampZ(d) == Str(<<d, "T", "10:00:00", "Z">>)
StampF(d) == Str(<<d, "T", "10:00:00", ".000", "+00:00">>)

Responses(okJson) ==
    {[status_code |-> HTTP_OK, body |-> b] :
        b \in {JsonBody(j) : j \in okJson} \cup {HtmlBody}}
    \cup {[status_code |-> s, body |-> b] :
        s \in Statuses \ {HTTP_OK}, b \in ErrorBodies}

\* GET repos/{owner}/{repo}
GitHubInfoJson ==
    UNION { SubDicts([default_branch |-> Str(<<"main">>), description |-> d,
                      html_url |-> Str(<<"https://github.com/a/b">>), license |-> l],
                     {"default_branch", "description", "license"}) :
            d \in Descriptions,
            l \in {Null} \cup {Dict([spdx_id |-> i]) : i \in LicenseIds} }
    \cup {[default_branch |-> Str(<<"main">>), description |-> Str(<<"A plugin">>)]}

\* GET repos/{owner}/{repo}/commits/{branch}
GitHubCommitJson ==
    { [sha |-> Str(<<"abc123">>), commit |-> [committer |-> [date |-> StampZ("2024-03-01")]]],
      [sha |-> Str(<<"def456">>), commit |-> [committer |-> [date |-> StampZ("2023-12-31")]]],
      [sha |-> Str(<<"abc123">>), commit |-> [committer |-> [date |-> StampF("2024-03-01")]]],
      [commit |-> [committer |-> [date |-> StampZ("2024-03-01")]]],
      [sha |-> Str(<<"abc123">>)] }

\* GET projects/{encoded path}
GitlabInfoJson ==
    UNION { SubDicts([default_branch |-> Str(<<"main">>), description |-> d,
                      web_url |-> Str(<<"https://gitlab.com/a/b">>), license |-> l],
                     {"default_branch", "description", "license"}) :
            d \in Descriptions,
            l \in {Null} \cup {Dict([key |-> i]) : i \in LicenseIds} }
    \cup {[default_branch |-> Str(<<"main">>), description |-> Str(<<"A plugin">>)]}

\* GET projects/{encoded path}/repository/branches/{branch}
GitlabBranchJson ==
    { [commit |-> [id |-> Str(<<"abc123">>), committed_date |-> StampF("2024-03-01"),
                   created_at |-> StampF("2023-12-31")]],
      [commit |-> [id |-> Str(<<"def456">>), committed_date |-> StampF("2023-12-31"),
                   created_at |-> StampF("2023-12-31")]],
      [commit |-> [id |-> Str(<<"abc123">>), committed_date |-> StampF("2024-03-01"),
                   created_at |-> StampZ("2024-03-01")]],
      [commit |-> [committed_date |-> StampF("2024-03-01"),
                   created_at |-> StampF("2024-03-01")]],
      [name |-> Str(<<"main">>)] }

\* GET ~{owner}/repos/{repo}
SourceHutInfoJson ==
    UNION { SubDicts([name |-> Str(<<"b">>), description |-> d, license |-> l],
                     {"description", "license"}) :
            d \in Descriptions, l \in {Null, Str(<<"MIT">>)} }

\* GET ~{owner}/repos/{repo}/log[/{branch}]
SourceHutCommits ==
    { [id |-> Str(<<"abc123">>), timestamp |-> StampF("2024-03-01")],
      [id |-> Str(<<"def456">>), timestamp |-> StampF("2023-12-31")] }
SeqsUpTo(S, n) == UNION { [1..k -> S] : k \in 0..n }
SourceHutLogJson ==
    { [results |-> l] : l \in SeqsUpTo(SourceHutCommits, MaxLogLen) }
    \cup {[next |-> Null]}

\* ------------------------------------------------------------ state
VARIABLES
    environ,          \* os.environ restricted to the two token variables
    github_token,     \* the default of GitHubPlugin._api_call's token parameter
    sourcehut_token,  \* the default of SourceHutPlugin._api_call's token parameter
    warnings,         \* per variable, the number of "not set" warnings logged
    pc,               \* where the single thread of control is
    plugin_spec,      \* the argument of the running plugin_from_spec call
    repo_info,        \* the adapter's local repo_info
    calls,            \* the requests.get calls of the running resolution, with responses
    result            \* what plugin_from_spec returned or raised

vars == <<environ, github_token, sourcehut_token, warnings, pc, plugin_spec,
          repo_info, calls, result>>

\* os.environ.get(name)
EnvironGet(env, name) == env[name]

\* _get_github_token / _get_sourcehut_token: the value read, and the number of
\* warnings the read logs.
_get_github_token(env) == EnvironGet(env, "GITHUB_TOKEN")
_get_sourcehut_token(env) == EnvironGet(env, "SOURCEHUT_TOKEN")
WarningsLogged(token) == IF token = Null THEN 1 ELSE 0

\* The token parameter of an _api_call(path) made while the environment is
\* env: the call sites pass no token, so it is the default, a value bound
\* when the def statement ran.
GitHubCallToken(env, bound) == bound
SourceHutCallToken(env, bound) == bound

\* The module has been imported: the def statements of the two _api_call
\* methods have evaluated their defaults, each reading its variable once.
Init ==
    /\ environ \in [EnvVars -> OptTokens]
    /\ github_token = _get_github_token(environ)
    /\ sourcehut_token = _get_sourcehut_token(environ)
    /\ warnings = [v \in EnvVars |-> WarningsLogged(EnvironGet(environ, v))]
    /\ pc = "idle"
    /\ plugin_spec = Null
    /\ repo_info = Null
    /\ calls = <<>>
    /\ result = Null

\* The process sets, changes or unsets a token variable between resolutions.
SetEnv ==
    /\ pc = "idle"
    /\ \E v \in EnvVars, tok \in OptTokens :
        /\ tok # environ[v]
        /\ environ' = [environ EXCEPT ![v] = tok]
    /\ UNCHANGED <<github_token, sourcehut_token, warnings, pc, plugin_spec,
                   repo_info, calls, result>>

\* ------------------------------------------------------------ requests
AuthHeaders(token) ==
    IF token # Null
    THEN ("Content-Type" :> <<"application/json">>)
         @@ ("Authorization" :> (<<"token ">> \o token.v))
    ELSE ("Content-Type" :> <<"application/json">>)
NoHeaders == [k \in {} |-> <<>>]

Request(url, headers) == [url |-> url, headers |-> headers]

\* response.json()
ResponseJson(response) ==
    IF response.body.isjson THEN Ok(response.body.json)
    ELSE Raise("JSONDecodeError", <<"Expecting value">>)

\* Mutant: only server errors count as failures.
CallFailed_ServerErrorsOnly(response) == response.status_code >= 500

\* The status test of the three _api_call methods.
CallFailed(response) == response.status_code # HTTP_OK

\* ------------------------------------------------------------ GitHubPlugin
GitHubRequest(path, token) ==
    Request(<<"https://api.github.com/">> \o path, AuthHeaders(token))

GitHubApiResult(response) ==
    IF CallFailed(response)
    THEN Raise("RuntimeError", <<"GitHub API call failed: ">> \o response.body.text)
    ELSE ResponseJson(response)

GitHubFullName(spec) == Fmt(spec.owner) \o <<"/">> \o Fmt(spec.repo)

\* Mutant: the host's default branch is used whenever it is reported.
BranchOrDefault_DefaultFirst(spec, info) ==
    IF "default_branch" \in DOMAIN info THEN Ok(info["default_branch"])
    ELSE IF Truthy(spec.branch) THEN Ok(spec.branch)
    ELSE Raise("KeyError", <<"default_branch">>)

\* plugin_spec.branch or repo_info["default_branch"]
BranchOrDefault(spec, info) ==
    IF Truthy(spec.branch) THEN Ok(spec.branch)
    ELSE IF "default_branch" \in DOMAIN info THEN Ok(info["default_branch"])
    ELSE Raise("KeyError", <<"default_branch">>)

\* datetime.strptime(s, '%Y-%m-%dT%H:%M:%SZ').date()
StrptimeZ(s) ==
    IF /\ Len(s) = 4
       /\ s[1] \in Dates /\ s[2] = "T" /\ s[3] \in Times /\ s[4] = "Z"
    THEN Ok(<<s[1]>>)
    ELSE Raise("ValueError", <<"time data does not match format">>)

\* datetime.strptime(s, '%Y-%m-%dT%H:%M:%S.%f%z').date()
StrptimeFz(s) ==
    IF /\ Len(s) = 5
       /\ s[1] \in Dates /\ s[2] = "T" /\ s[3] \in Times
       /\ s[4] \in Fractions /\ s[5] \in Offsets
    THEN Ok(<<s[1]>>)
    ELSE Raise("ValueError", <<"time data does not match format">>)

\* License.from_spdx_id
from_spdx_id(id) ==
    IF id = Null THEN UNKNOWN
    ELSE IF id = Str(<<"MIT">>) THEN MIT
    ELSE IF id = Str(<<"GPL-3.0">>) THEN GPL3
    ELSE UNKNOWN

\* VimPlugin.description, the class attribute self.description falls back to.
DefaultDescription == Str(<<"No description">>)

EmptyDict == [k \in {} |-> Null]

\* Mutant: the archive of the moving HEAD instead of the commit.
GitHubSource_Head(full_name, sha) ==
    [cls |-> "UrlSource",
     url |-> Str(<<"https://github.com/">> \o full_name \o <<"/archive/">>
                 \o <<"HEAD">> \o <<".tar.gz">>)]

GitHubSource(full_name, sha) ==
    [cls |-> "UrlSource",
     url |-> Str(<<"https://github.com/">> \o full_name \o <<"/archive/">>
                 \o Fmt(sha) \o <<".tar.gz">>)]

\* Mutant: the operands of `or` swapped, the host's license tried first.
GitHubLicense_HostFirst(spec, info) ==
    LET host == from_spdx_id(DictGet(PyOr(DictGet(info, "license"), Dict(EmptyDict)).d,
                                     "spdx_id"))
    IN  IF host # UNKNOWN \/ spec.license = Null THEN host ELSE spec.license

\* plugin_spec.license or License.from_spdx_id((repo_info.get("license") or {}).get("spdx_id"))
GitHubLicense(spec, info) ==
    IF Truthy(spec.license) THEN spec.license
    ELSE from_spdx_id(DictGet(PyOr(DictGet(info, "license"), Dict(EmptyDict)).d,
                              "spdx_id"))

\* GitHubPlugin.__init__ from latest_commit = api_callback["commit"] on.
GitHubBuild(spec, info, api_callback) ==
    IF "commit" \notin DOMAIN api_callback THEN Raise("KeyError", <<"commit">>)
    ELSE IF "sha" \notin DOMAIN api_callback THEN Raise("KeyError", <<"sha">>)
    ELSE IF "html_url" \notin DOMAIN info THEN Raise("KeyError", <<"html_url">>)
    ELSE LET latest_commit == api_callback["commit"]
             sha == api_callback["sha"]
             date == latest_commit["committer"]["date"]
             updated == StrptimeZ(date.v)
         IN  IF ~updated.ok THEN updated
             ELSE Ok([cls |-> "GitHubPlugin",
                      name |-> spec.name,
                      owner |-> spec.owner,
                      version |-> Str(SplitT0(date.v)),
                      source |-> GitHubSource(GitHubFullName(spec), sha),
                      description |-> PyOr(DictGet(info, "description"), DefaultDescription),
                      homepage |-> info["html_url"],
                      license |-> GitHubLicense(spec, info),
                      source_line |-> spec.line,
                      updated |-> updated.val])

GitHubRepoInfo ==
    /\ pc = "GitHubPlugin.repo_info"
    /\ \E response \in Responses(GitHubInfoJson) :
        LET token == GitHubCallToken(environ, github_token)
            request == GitHubRequest(<<"repos/">> \o GitHubFullName(plugin_spec), token)
            r == GitHubApiResult(response)
        IN  /\ calls' = Append(calls, [request |-> request, response |-> response])
            /\ IF r.ok
               THEN repo_info' = r.val /\ pc' = "GitHubPlugin.commit" /\ UNCHANGED result
               ELSE result' = r /\ pc' = "done" /\ UNCHANGED repo_info
    /\ UNCHANGED <<environ, github_token, sourcehut_token, warnings, plugin_spec>>

GitHubCommit ==
    /\ pc = "GitHubPlugin.commit"
    /\ LET default_branch == BranchOrDefault(plugin_spec, repo_info)
       IN  IF ~default_branch.ok
           THEN result' = default_branch /\ UNCHANGED calls
           ELSE \E response \in Responses(GitHubCommitJson) :
                LET token == GitHubCallToken(environ, github_token)
                    request == GitHubRequest(
                        <<"repos/">> \o GitHubFullName(plugin_spec) \o <<"/commits/">>
                        \o Fmt(default_branch.val), token)
                    r == GitHubApiResult(response)
                IN  /\ calls' = Append(calls, [request |-> request, response |-> response])
                    /\ result' = IF r.ok THEN GitHubBuild(plugin_spec, repo_info, r.val)
                                 ELSE r
    /\ pc' = "done"
    /\ UNCHANGED <<environ, github_token, sourcehut_token, warnings, plugin_spec, repo_info>>

\* ------------------------------------------------------------ GitlabPlugin
GitlabRequest(path) == Request(<<"https://gitlab.com/api/v4/">> \o path, NoHeaders)

GitlabApiResult(response) ==
    IF CallFailed(response)
    THEN Raise("RuntimeError", <<"Gitlab API call failed: ">> \o response.body.text)
    ELSE ResponseJson(response)

GitlabFullName(spec) == Quote(Fmt(spec.owner) \o <<"/">> \o Fmt(spec.repo))

GitlabSource(full_name, sha) ==
    [cls |-> "UrlSource",
     url |-> Str(<<"https://gitlab.com/api/v4/projects/">> \o full_name
                 \o <<"/repository/archive.tar.gz?sha=">> \o Fmt(sha))]

\* plugin_spec.license or License.from_spdx_id(repo_info.get("license", {}).get("key"))
GitlabLicense(spec, info) ==
    IF Truthy(spec.license) THEN Ok(spec.license)
    ELSE LET lic == DictGetDefault(info, "license", Dict(EmptyDict))
         IN  IF lic = Null
             THEN Raise("AttributeError", <<"'NoneType' object has no attribute 'get'">>)
             ELSE Ok(from_spdx_id(DictGet(lic.d, "key")))

\* GitlabPlugin.__init__ from latest_commit = api_callback["commit"] on.
GitlabBuild(spec, info, api_callback) ==
    IF "commit" \notin DOMAIN api_callback THEN Raise("KeyError", <<"commit">>)
    ELSE IF "id" \notin DOMAIN api_callback["commit"] THEN Raise("KeyError", <<"id">>)
    ELSE IF "web_url" \notin DOMAIN info THEN Raise("KeyError", <<"web_url">>)
    ELSE LET latest_commit == api_callback["commit"]
             sha == latest_commit["id"]
             license == GitlabLicense(spec, info)
             updated == StrptimeFz(latest_commit["created_at"].v)
         IN  IF ~license.ok THEN license
             ELSE IF ~updated.ok THEN updated
             ELSE Ok([cls |-> "GitlabPlugin",
                      name |-> spec.name,
                      owner |-> spec.owner,
                      version |-> Str(SplitT0(latest_commit["committed_date"].v)),
                      source |-> GitlabSource(GitlabFullName(spec), sha),
                      description |-> PyOr(DictGet(info, "description"), DefaultDescription),
                      homepage |-> info["web_url"],
                      license |-> license.val,
                      source_line |-> spec.line,
                      updated |-> updated.val])

GitlabRepoInfo ==
    /\ pc = "GitlabPlugin.repo_info"
    /\ \E response \in Responses(GitlabInfoJson) :
        LET request == GitlabRequest(<<"projects/">> \o GitlabFullName(plugin_spec))
            r == GitlabApiResult(response)
        IN  /\ calls' = Append(calls, [request |-> request, response |-> response])
            /\ IF r.ok
               THEN repo_info' = r.val /\ pc' = "GitlabPlugin.branch" /\ UNCHANGED result
               ELSE result' = r /\ pc' = "done" /\ UNCHANGED repo_info
    /\ UNCHANGED <<environ, github_token, sourcehut_token, warnings, plugin_spec>>

GitlabBranch ==
    /\ pc = "GitlabPlugin.branch"
    /\ LET default_branch == BranchOrDefault(plugin_spec, repo_info)
       IN  IF ~default_branch.ok
           THEN result' = default_branch /\ UNCHANGED calls
           ELSE \E response \in Responses(GitlabBranchJson) :
                LET request == GitlabRequest(
                        <<"projects/">> \o GitlabFullName(plugin_spec)
                        \o <<"/repository/branches/">> \o Fmt(default_branch.val))
                    r == GitlabApiResult(response)
                IN  /\ calls' = Append(calls, [request |-> request, response |-> response])
                    /\ result' = IF r.ok THEN GitlabBuild(plugin_spec, repo_info, r.val)
                                 ELSE r
    /\ pc' = "done"
    /\ UNCHANGED <<environ, github_token, sourcehut_token, warnings, plugin_spec, repo_info>>

\* ------------------------------------------------------------ SourceHutPlugin
SourceHutRequest(path, token) ==
    Request(<<"https://git.sr.ht/api/">> \o path, AuthHeaders(token))

\* str(d) of the dict a failed call's body parses to.
DictRepr(d) == <<"{'message': '">> \o d["message"].v \o <<"'}">>

\* The message is formatted from response.json(), which raises on a body
\* that is not JSON before the RuntimeError is built.
SourceHutApiResult(response) ==
    IF CallFailed(response)
    THEN LET j == ResponseJson(response)
         IN  IF j.ok
             THEN Raise("RuntimeError", <<"SourceHut API call failed: ">> \o DictRepr(j.val))
             ELSE j
    ELSE ResponseJson(response)

SourceHutRepoPath(spec) == <<"~">> \o Fmt(spec.owner) \o <<"/repos/">> \o Fmt(spec.repo)

SourceHutLogPath(spec) ==
    IF spec.branch = Null
    THEN SourceHutRepoPath(spec) \o <<"/log">>
    ELSE SourceHutRepoPath(spec) \o <<"/log/">> \o Fmt(spec.branch)

\* Mutant: the last entry of the log, commits["results"][-1].
LatestCommit_Last(commits) ==
    IF "results" \notin DOMAIN commits THEN Raise("KeyError", <<"results">>)
    ELSE IF Len(commits["results"]) = 0
         THEN Raise("IndexError", <<"list index out of range">>)
    ELSE Ok(commits["results"][Len(commits["results"])])

\* commits["results"][0]
LatestCommit(commits) ==
    IF "results" \notin DOMAIN commits THEN Raise("KeyError", <<"results">>)
    ELSE IF Len(commits["results"]) = 0
         THEN Raise("IndexError", <<"list index out of range">>)
    ELSE Ok(commits["results"][1])

SourceHutHomepage(spec) ==
    Str(<<"https://git.sr.ht/~">> \o Fmt(spec.owner) \o <<"/">> \o Fmt(spec.repo))

\* plugin_spec.license or License.UNKNOWN
SourceHutLicense(spec) == IF Truthy(spec.license) THEN spec.license ELSE UNKNOWN

\* SourceHutPlugin.__init__ from latest_commit = commits["results"][0] on;
\* it assigns no `updated`.
SourceHutBuild(spec, info, commits) ==
    LET latest == LatestCommit(commits)
    IN  IF ~latest.ok THEN latest
        ELSE LET latest_commit == latest.val
                 sha == latest_commit["id"]
             IN  Ok([cls |-> "SourceHutPlugin",
                     name |-> spec.name,
                     owner |-> spec.owner,
                     version |-> Str(SplitT0(latest_commit["timestamp"].v)),
                     description |-> PyOr(DictGet(info, "description"), DefaultDescription),
                     homepage |-> SourceHutHomepage(spec),
                     source |-> [cls |-> "GitSource", url |-> SourceHutHomepage(spec),
                                 rev |-> sha],
                     license |-> SourceHutLicense(spec),
                     source_line |-> spec.line])

SourceHutRepoInfo ==
    /\ pc = "SourceHutPlugin.repo_info"
    /\ \E response \in Responses(SourceHutInfoJson) :
        LET token == SourceHutCallToken(environ, sourcehut_token)
            request == SourceHutRequest(SourceHutRepoPath(plugin_spec), token)
            r == SourceHutApiResult(response)
        IN  /\ calls' = Append(calls, [request |-> request, response |-> response])
            /\ IF r.ok
               THEN repo_info' = r.val /\ pc' = "SourceHutPlugin.log" /\ UNCHANGED result
               ELSE result' = r /\ pc' = "done" /\ UNCHANGED repo_info
    /\ UNCHANGED <<environ, github_token, sourcehut_token, warnings, plugin_spec>>

SourceHutLog ==
    /\ pc = "SourceHutPlugin.log"
    /\ \E response \in Responses(SourceHutLogJson) :
        LET token == SourceHutCallToken(environ, sourcehut_token)
            request == SourceHutRequest(SourceHutLogPath(plugin_spec), token)
            r == SourceHutApiResult(response)
        IN  /\ calls' = Append(calls, [request |-> request, response |-> response])
            /\ result' = IF r.ok THEN SourceHutBuild(plugin_spec, repo_info, r.val)
                         ELSE r
    /\ pc' = "done"
    /\ UNCHANGED <<environ, github_token, sourcehut_token, warnings, plugin_spec, repo_info>>

\* ------------------------------------------------------------ plugin_from_spec
\* Mutant: the chain ends in a default adapter instead of raising.
Dispatch_DefaultGitHub(host) ==
    IF host = GITLAB THEN "GitlabPlugin.repo_info"
    ELSE IF host = SOURCEHUT THEN "SourceHutPlugin.repo_info"
    ELSE "GitHubPlugin.repo_info"

\* The constructor the if/elif chain selects, as the position its __init__
\* starts at; "none" for the else branch.
Dispatch(host) ==
    IF host = GITHUB THEN "GitHubPlugin.repo_info"
    ELSE IF host = GITLAB THEN "GitlabPlugin.repo_info"
    ELSE IF host = SOURCEHUT THEN "SourceHutPlugin.repo_info"
    ELSE "none"

plugin_from_spec ==
    /\ pc = "idle"
    /\ \E spec \in PluginSpecs :
        /\ plugin_spec' = spec
        /\ IF Dispatch(spec.repository_host) = "none"
           THEN /\ pc' = "done"
                /\ result' = Raise("NotImplementedError",
                                    <<"Unsupported source: ", spec.repository_host>>)
           ELSE /\ pc' = Dispatch(spec.repository_host)
                /\ UNCHANGED result
    /\ UNCHANGED <<environ, github_token, sourcehut_token, warnings, repo_info, calls>>

\* The caller takes the returned plugin or the raised exception.
Return ==
    /\ pc = "done"
    /\ pc' = "idle"
    /\ plugin_spec' = Null
    /\ repo_info' = Null
    /\ calls' = <<>>
    /\ result' = Null
    /\ UNCHANGED <<environ, github_token, sourcehut_token, warnings>>

Next ==
    \/ SetEnv
    \/ plugin_from_spec
    \/ GitHubRepoInfo
    \/ GitHubCommit
    \/ GitlabRepoInfo
    \/ GitlabBranch
    \/ SourceHutRepoInfo
    \/ SourceHutLog
    \/ Return

Spec == Init /\ [][Next]_vars

\* ============================================================ properties
Host == plugin_spec.repository_host
Done == pc = "done"
Succeeded == pc = "done" /\ result.ok
Failed == pc = "done" /\ ~result.ok
SuccessStatus(code) == code \in 200..299
CallStatus(i) == calls[i].response.status_code
CallJson(i) == calls[i].response.body.json
CallUrl(i) == calls[i].request.url
\* Both calls of the running resolution were answered 200 with a JSON body.
BothCallsSucceeded ==
    /\ Len(calls) = 2
    /\ \A i \in 1..2 : CallStatus(i) = 200 /\ calls[i].response.body.isjson
\* The branch the claim expects the second call to name.
ExpectedBranch ==
    IF plugin_spec.branch # Null THEN plugin_spec.branch
    ELSE CallJson(1)["default_branch"]

\* C1: a GitHub or GitLab resolution that makes its second API call makes it
\* for the reference's explicit branch when it has one, and otherwise for the
\* default_branch of the repository-info response.
C1_SecondCallBranch ==
    (pc # "idle" /\ Len(calls) = 2) =>
        /\ Host = GITHUB =>
             CallUrl(2) = <<"https://api.github.com/", "repos/">>
                          \o plugin_spec.owner.v \o <<"/">> \o plugin_spec.repo.v
                          \o <<"/commits/">> \o ExpectedBranch.v
        /\ Host = GITLAB =>
             CallUrl(2) = <<"https://gitlab.com/api/v4/", "projects/">>
                          \o plugin_spec.owner.v \o <<"%2F">> \o plugin_spec.repo.v
                          \o <<"/repository/branches/">> \o ExpectedBranch.v

\* An explicit branch that differs from the reported default was looked up.
C1_Witness ==
    /\ Done /\ Host = GITLAB /\ Len(calls) = 2
    /\ plugin_spec.branch = Str(<<"dev">>)
    /\ "default_branch" \in DOMAIN CallJson(1)
    /\ CallJson(1)["default_branch"] = Str(<<"main">>)
    /\ Last(CallUrl(2)) = "dev"

\* C2: a successful resolution of a reference with a license override yields
\* a plugin whose license is the override, whatever the repository-info
\* response says about the license.
C2_LicenseOverride ==
    (Succeeded /\ plugin_spec.license # Null) =>
        result.val.license = plugin_spec.license

\* An override won over a license the host reported.
C2_Witness ==
    /\ Succeeded /\ Host = GITHUB
    /\ plugin_spec.license = GPL3
    /\ "license" \in DOMAIN CallJson(1)
    /\ CallJson(1)["license"] = Dict([spdx_id |-> Str(<<"MIT">>)])
    /\ result.val.license = GPL3

\* C3: a resolution makes at most two calls, the second only after the first
\* returned a success status; a call that returns a non-success status is
\* the last call of its resolution, which has ended in an error with no
\* plugin returned.
C3_FailFast ==
    /\ Len(calls) <= 2
    /\ Len(calls) = 2 => SuccessStatus(CallStatus(1))
    /\ \A i \in 1..Len(calls) :
         ~SuccessStatus(CallStatus(i)) =>
            /\ i = Len(calls)
            /\ Failed
            /\ "val" \notin DOMAIN result

\* The commit call, made after a successful repository-info call, failed.
C3_Witness ==
    /\ Failed /\ Len(calls) = 2
    /\ CallStatus(1) = 200 /\ CallStatus(2) = 404

\* The environment variable an adapter's token comes from.
TokenVar(host) == IF host = GITHUB THEN "GITHUB_TOKEN" ELSE "SOURCEHUT_TOKEN"
TokenHosts == {GITHUB, SOURCEHUT}

\* C4: every request of a GitHub or SourceHut resolution carries the token
\* the host's environment variable holds while the resolution runs (the
\* variable changes only between resolutions).
C4_TokenReadAtCallTime ==
    (pc # "idle" /\ Host \in TokenHosts) =>
        \A i \in 1..Len(calls) :
            calls[i].request.headers = AuthHeaders(environ[TokenVar(Host)])

\* C5: while a host's token variable is absent, the calls to that host
\* carry no Authorization header, and the missing-token warning of that
\* host has been logged exactly once.
C5_AbsentTokenUnauthenticated ==
    (pc # "idle" /\ Host \in TokenHosts /\ environ[TokenVar(Host)] = Null
     /\ Len(calls) >= 1) =>
        /\ \A i \in 1..Len(calls) :
             "Authorization" \notin DOMAIN calls[i].request.headers
        /\ warnings[TokenVar(Host)] = 1

\* C6: after a successful log call the SourceHut adapter fails when the
\* result list is empty, and otherwise returns a plugin whose commit and
\* version come from the entry at index 0.
C6_FirstLogEntry ==
    (Done /\ Host = SOURCEHUT /\ BothCallsSucceeded
     /\ "results" \in DOMAIN CallJson(2)) =>
        LET results == CallJson(2)["results"]
        IN  IF Len(results) = 0
            THEN Failed /\ "val" \notin DOMAIN result
            ELSE /\ Succeeded
                 /\ result.val.source.rev = results[1]["id"]
                 /\ result.val.version.v = <<results[1]["timestamp"].v[1]>>

\* A log of two different entries was resolved.
C6_Witness ==
    /\ Succeeded /\ Host = SOURCEHUT
    /\ Len(CallJson(2)["results"]) = 2
    /\ CallJson(2)["results"][1] # CallJson(2)["results"][2]
    /\ result.val.source.rev = Str(<<"def456">>)

BranchNames == {"main", "dev"}
Fragments(s) == {s[i] : i \in 1..Len(s)}

\* C7: a returned plugin's source names the commit identifier of the
\* resolution's commit/log response (in the archive URL for GitHub and
\* GitLab, as the GitSource revision for SourceHut) and no branch name, and
\* its version is the date part of that commit's timestamp.
C7_PinnedCommit ==
    Succeeded =>
        LET p == result.val
            cj == CallJson(2)
        IN  /\ Host = GITHUB =>
                 /\ p.source.url.v = <<"https://github.com/">> \o plugin_spec.owner.v
                        \o <<"/">> \o plugin_spec.repo.v \o <<"/archive/">>
                        \o cj["sha"].v \o <<".tar.gz">>
                 /\ Fragments(p.source.url.v) \cap BranchNames = {}
                 /\ p.version.v = <<cj["commit"]["committer"]["date"].v[1]>>
            /\ Host = GITLAB =>
                 /\ p.source.url.v = <<"https://gitlab.com/api/v4/projects/">>
                        \o plugin_spec.owner.v \o <<"%2F">> \o plugin_spec.repo.v
                        \o <<"/repository/archive.tar.gz?sha=">> \o cj["commit"]["id"].v
                 /\ Fragments(p.source.url.v) \cap BranchNames = {}
                 /\ p.version.v = <<cj["commit"]["committed_date"].v[1]>>
            /\ Host = SOURCEHUT =>
                 /\ p.source.cls = "GitSource"
                 /\ p.source.rev = cj["results"][1]["id"]
                 /\ Fragments(p.source.rev.v) \cap BranchNames = {}
                 /\ p.version.v = <<cj["results"][1]["timestamp"].v[1]>>

\* A GitHub plugin was returned for an explicit branch.
C7_Witness ==
    /\ Succeeded /\ Host = GITHUB
    /\ plugin_spec.branch = Str(<<"dev">>)
    /\ CallJson(2)["sha"] = Str(<<"def456">>)
    /\ result.val.version = Str(<<"2023-12-31">>)

\* The fields the adapter indexes without a default are all there, and the
\* commit timestamp is in the host's format.
RequiredPresent ==
    /\ Host = GITHUB =>
         /\ "html_url" \in DOMAIN CallJson(1)
         /\ {"sha", "commit"} \subseteq DOMAIN CallJson(2)
         /\ CallJson(2)["commit"]["committer"]["date"] \in {StampZ(d) : d \in Dates}
    /\ Host = GITLAB =>
         /\ "web_url" \in DOMAIN CallJson(1)
         /\ "commit" \in DOMAIN CallJson(2)
         /\ "id" \in DOMAIN CallJson(2)["commit"]
         /\ CallJson(2)["commit"]["created_at"] \in {StampF(d) : d \in Dates}
    /\ Host = SOURCEHUT =>
         /\ "results" \in DOMAIN CallJson(2)
         /\ Len(CallJson(2)["results"]) >= 1

OptionalAbsent(key) ==
    key \notin DOMAIN CallJson(1) \/ CallJson(1)[key] = Null

\* C8: when both calls succeed, the reference has no license override and
\* the repository-info response has no description (missing, null or
\* empty) and no license (missing or null), the resolution succeeds with
\* description "No description" and license UNKNOWN.
C8_OptionalFieldsDefault ==
    (Done /\ BothCallsSucceeded /\ RequiredPresent
     /\ plugin_spec.license = Null
     /\ (OptionalAbsent("description") \/ CallJson(1)["description"] = Str(<<>>))
     /\ OptionalAbsent("license")) =>
        /\ Succeeded
        /\ result.val.description = Str(<<"No description">>)
        /\ result.val.license = UNKNOWN

\* The API origin of each adapter.
ApiOrigin(host) ==
    IF host = GITHUB THEN "https://api.github.com/"
    ELSE IF host = GITLAB THEN "https://gitlab.com/api/v4/"
    ELSE "https://git.sr.ht/api/"
PluginClass(host) ==
    IF host = GITHUB THEN "GitHubPlugin"
    ELSE IF host = GITLAB THEN "GitlabPlugin"
    ELSE "SourceHutPlugin"

\* C9: plugin_from_spec runs the adapter of the reference's host and no
\* other: every call goes to that host's API, a returned plugin is of that
\* adapter's class, and an error of a known host is the adapter's own; for
\* any other host it raises NotImplementedError without a single call.
C9_Dispatch ==
    pc # "idle" =>
        IF Host \in {GITHUB, GITLAB, SOURCEHUT}
        THEN /\ \A i \in 1..Len(calls) : CallUrl(i)[1] = ApiOrigin(Host)
             /\ Done \/ pc \in {PluginClass(Host) \o ".repo_info",
                                 PluginClass(Host) \o ".commit",
                                 PluginClass(Host) \o ".branch",
                                 PluginClass(Host) \o ".log"}
             /\ Succeeded => result.val.cls = PluginClass(Host)
             /\ Failed => result.err.kind # "NotImplementedError"
        ELSE /\ Failed
             /\ result.err.kind = "NotImplementedError"
             /\ calls = <<>>

\* An unsupported host was rejected.
C9_Witness ==
    /\ Failed /\ Host = OTHERHOST
    /\ result.err.kind = "NotImplementedError"
    /\ calls = <<>>

\* The decimal text of a status code.
StatusText(code) ==
    IF code = 404 THEN "404" ELSE IF code = 500 THEN "500" ELSE "200"

\* s occurs in m as a run of consecutive fragments.
Contains(m, s) ==
    \E i \in 0..(Len(m) - Len(s)) : SubSeq(m, i + 1, i + Len(s)) = s

\* C10: after a call that returned a non-success status the resolution has
\* raised the adapter's API error, and that error carries the status code
\* and the body of the failed response, JSON or not.
C10_ErrorCarriesStatusAndBody ==
    (Done /\ Len(calls) >= 1 /\ ~SuccessStatus(CallStatus(Len(calls)))) =>
        LET response == Last(calls).response
        IN  /\ Failed
            /\ result.err.kind = "RuntimeError"
            /\ Contains(result.err.msg, response.body.text)
                 \/ (response.body.isjson
                     /\ Contains(result.err.msg, DictRepr(response.body.json)))
            /\ "status_code" \in DOMAIN result.err
                 \/ StatusText(response.status_code) \in Fragments(result.err.msg)

====
